---- MODULE Spec2Model ----
(***************************************************************************)
(* HTS classification service: the classify route (routes/classify.routes  *)
(* .js), the candidate retriever (utils/retrieval.js) and the embedding    *)
(* backfill job, over one tariff_codes table.                              *)
(*                                                                         *)
(* Strings are sequences over Chars.  An HTS code is modelled by its rank  *)
(* in the collation order of ORDER BY htsno (a positive integer), SQL NULL *)
(* by NULL.  An embedding vector is named by the text it was computed      *)
(* from; the cosine distance between a query vector and a stored vector is *)
(* a value of Dists chosen when the store answers the query.               *)
(***************************************************************************)
EXTENDS Integers, Sequences, FiniteSets, TLC

\* ------------------------------------------------------------ bounds
MaxLen == 1
NumReqs == 2
MaxRows == 2
MaxCode == 2
MaxDesc == 1

\* ------------------------------------------------------------ constants
NULL == 0
DefaultK == 5
BATCH_SIZE == 10
\* similarity and distance are fixed-point numbers, in units of 1/Scale
Scale == 10000

Min(a, b) == IF a < b THEN a ELSE b

Range(s) == {s[i] : i \in DOMAIN s}

SeqsUpTo(S, n) == UNION {[1..m -> S] : m \in 0..n}

\* ------------------------------------------------------------ strings
Chars == {" ", "a"}

Strings == SeqsUpTo(Chars, MaxLen)

RECURSIVE TrimStart(_)
TrimStart(s) == IF s # <<>> /\ Head(s) = " " THEN TrimStart(Tail(s)) ELSE s

RECURSIVE TrimEnd(_)
TrimEnd(s) ==
    IF s # <<>> /\ s[Len(s)] = " " THEN TrimEnd(SubSeq(s, 1, Len(s) - 1)) ELSE s

\* a trim that leaves the string as it is
TrimNothing(s) == s

\* String.prototype.trim
Trim(s) == TrimEnd(TrimStart(s))

\* the values req.body.product_description can have: absent (no body, or no
\* such field), null, a string, or a value with no trim method (a number)
Undefined == [t |-> "undefined", s |-> <<>>]
Null == [t |-> "null", s |-> <<>>]
Number == [t |-> "number", s |-> <<>>]
Str(s) == [t |-> "string", s |-> s]

Descriptions == {Undefined, Null, Number} \cup {Str(s) : s \in Strings}

\* product_description?.trim(): undefined for undefined and null, a TypeError
\* for a value without trim, the trimmed string otherwise
HasTrim(d) == d.t = "string"
OptionalTrim(d) == IF d.t \in {"undefined", "null"} THEN Undefined ELSE Str(Trim(d.s))

\* !x for x undefined or a string: true when x is undefined or ""
Falsy(x) == x.t = "undefined" \/ (x.t = "string" /\ x.s = <<>>)

\* ------------------------------------------------------------ tariff_codes
\* An embedding vector is named by the text the embedding model was given:
\* [tpl, htsno, descript].  NoVec is a NULL embedding column; OldVec(n) is a
\* vector written before the run (by an earlier run or another tool).
NoVec == [tpl |-> "null", htsno |-> NULL, descript |-> NULL]
OldVec(n) == [tpl |-> "old", htsno |-> NULL, descript |-> n]

TariffCode(h, d, i, e) == [htsno |-> h, descript |-> d, indent |-> i, embedding |-> e]

\* A table is a bag of rows: it is held as the sequence of its rows in
\* increasing order of (htsno, descript, indent, embedding), which no query
\* of the program depends on.
VecRank(e) == IF e = NoVec THEN 0 ELSE e.descript

RowLeq(a, b) ==
    \/ a.htsno < b.htsno
    \/ a.htsno = b.htsno /\ a.descript < b.descript
    \/ a.htsno = b.htsno /\ a.descript = b.descript /\ a.indent < b.indent
    \/ a.htsno = b.htsno /\ a.descript = b.descript /\ a.indent = b.indent
       /\ VecRank(a.embedding) <= VecRank(b.embedding)

\* the tables of up to n rows of S
Tables(S, n) ==
    {t \in SeqsUpTo(S, n) : \A i \in 1..(Len(t) - 1) : RowLeq(t[i], t[i + 1])}

\* cosine distances (embedding <=> $1), in units of 1/Scale: the angles 0, 45
\* and 180 degrees
Dists == {0, 2929, 20000}

\* the vectors held by the rows the query can return
StoredVecs(rows) == {rows[i].embedding : i \in DOMAIN rows} \ {NoVec}

\* ------------------------------------------------------------ retrieval
\* a WHERE clause without the condition on indent
RetrievalWhereAnyIndent(row) ==
    /\ row.embedding # NoVec
    /\ row.htsno # NULL

\* WHERE indent <= 2 AND embedding IS NOT NULL AND htsno IS NOT NULL
RetrievalWhere(row) ==
    /\ row.indent <= 2
    /\ row.embedding # NoVec
    /\ row.htsno # NULL

\* SELECT htsno as code, descript as description, indent,
\*        1 - (embedding <=> $1::vector) as similarity
Candidate(row, dist) ==
    [code |-> row.htsno, description |-> row.descript, indent |-> row.indent,
     similarity |-> Scale - dist[row.embedding]]

\* an ORDER BY whose second key is indent ASC
OrderByIndentAsc(a, b, dist) ==
    \/ dist[a.embedding] < dist[b.embedding]
    \/ dist[a.embedding] = dist[b.embedding] /\ a.indent <= b.indent

\* ORDER BY embedding <=> $1::vector, indent DESC: row a may precede row b
OrderBy(a, b, dist) ==
    \/ dist[a.embedding] < dist[b.embedding]
    \/ dist[a.embedding] = dist[b.embedding] /\ a.indent >= b.indent

\* LIMIT $2 of n sorted rows
Limit(n, k) == Min(n, k)

\* the row lists the store may answer the similarity query with: rows that
\* compare equal under ORDER BY come in an order the store chooses
QueryResults(rows, dist, k) ==
    LET hit == {i \in DOMAIN rows : RetrievalWhere(rows[i])}
        n == Cardinality(hit)
        sorted == {p \in [1..n -> hit] :
                      /\ \A a, b \in 1..n : a # b => p[a] # p[b]
                      /\ \A a, b \in 1..n : a < b => OrderBy(rows[p[a]], rows[p[b]], dist)}
    IN {[a \in 1..Limit(n, k) |-> Candidate(rows[p[a]], dist)] : p \in sorted}

\* ------------------------------------------------------------ language model
\* codes the model may name: the codes of the table and one code of no row
LLMCodes == 1..(MaxCode + 1)

\* confidence is a fixed-point number in units of 1/ConfidenceUnit
ConfidenceUnit == 10

CodeStrings == {"", "84"}

AltLists == {<<>>} \cup {<<c>> : c \in LLMCodes}

\* what the model answers to the classification prompt.  json: the text holds
\* a JSON object with every field of classificationSchema, each of its type;
\* the description fields and reasoning_brief are free strings the handler only
\* passes on, and are left out
LLMOutput(json, h, c, ch, hd, sh, alts) ==
    [json |-> json, hts_code |-> h, confidence |-> c, chapter |-> ch,
     heading |-> hd, subheading |-> sh, alternative_codes |-> alts]

LLMOutputs ==
    {LLMOutput(TRUE, h, ConfidenceUnit, "84", "84", "84", alts) :
        h \in LLMCodes, alts \in AltLists}
    \cup {LLMOutput(TRUE, 1, c, "84", "84", "84", <<>>) :
        c \in {-1, 0, 5, ConfidenceUnit + 1}}
    \cup {LLMOutput(TRUE, 1, ConfidenceUnit, ch, hd, sh, <<>>) :
        ch \in CodeStrings, hd \in CodeStrings, sh \in CodeStrings}
    \cup {LLMOutput(FALSE, 1, ConfidenceUnit, "84", "84", "84", <<>>)}

\* a schema without the bounds of confidence
SchemaWithoutBounds(out) == out.json

\* a schema whose confidence has min(0) and no max
SchemaWithoutMax(out) ==
    /\ out.json
    /\ out.confidence >= 0

\* StructuredOutputParser over classificationSchema: strings of any content,
\* confidence a number with min(0) and max(1), alternative_codes an array
classificationSchema(out) ==
    /\ out.json
    /\ out.confidence >= 0
    /\ out.confidence <= ConfidenceUnit

\* the parsed object
Parse(out) == [f \in DOMAIN out \ {"json"} |-> out[f]]

\* ------------------------------------------------------------ state
VARIABLES
    tariff_codes,    \* the table: a sequence of rows
    table0,          \* the table as it was at the start (history)
    body,            \* per request: req.body.product_description
    pc,              \* per request: where the handler is
    candidates,      \* per request: what retrieveHTSCodes returned
    classification,  \* per request: the parsed classifier output
    response,        \* per request: the response sent
    calls,           \* per request: the external calls issued, in order (history)
    cause,           \* per request: what made it fail (history)
    io,              \* per request: what its external calls were given and answered (history)
    ret,             \* a direct call of retrieveHTSCodes: its k, position and result
    mode,            \* per (htsno, descript, indent): how the job's calls for it behave
    jpc,             \* the backfill job: where it is
    totalRows,       \* the backfill job: totalRows
    processed,       \* the backfill job: processed
    batch,           \* the backfill job: result.rows of the current batch
    bi,              \* the backfill job: index of the current row in the batch
    flatEmbedding,   \* the backfill job: the vector of the current row
    fatal,           \* the backfill job: the outer catch was reached
    embedCalls,      \* per (htsno, descript, indent): embedding calls issued (history)
    writes,          \* UPDATEs issued (history)
    failures         \* rows of the job whose call threw (history)

reqVars == <<body, pc, candidates, classification, response, calls, cause, io>>

jobVars == <<jpc, totalRows, processed, batch, bi, flatEmbedding, fatal,
             embedCalls, writes, failures>>

vars == <<tariff_codes, table0, reqVars, ret, mode, jobVars>>

Reqs == 1..NumReqs

NoResponse == [status |-> 0]
NoClassification == [hts_code |-> NULL]

\* inputs: `Product: ${productDescription}`, the text of the query embedding
QueryText(d) == [tpl |-> "product", descript |-> d.s]
NoText == [tpl |-> "none", descript |-> <<>>]

\* classificationChain.invoke({ product_description, ..., candidates: candidatesText })
Prompt(d, cands) == [product_description |-> d, candidates |-> cands]
NoPrompt == Prompt(Undefined, <<>>)

NoAnswer == LLMOutput(FALSE, NULL, 0, "", "", "", <<>>)

\* text: the text embedded for the query; dist: the distances the store
\* computed for the query vector; prompt: what the classification chain was
\* given; answer: what the model answered to it
NoIO == [text |-> NoText, dist |-> <<>>, prompt |-> NoPrompt, answer |-> NoAnswer]

\* ------------------------------------------------------------ the classify route
\* res.status(400).json({ error: "product_description is required" })
ValidationFailure == [status |-> 400, error |-> "product_description is required"]

\* res.status(404).json({ error: "no_candidates_found", message: ... })
NoCandidatesFound ==
    [status |-> 404, error |-> "no_candidates_found",
     message |-> "No HTS codes found in database"]

\* the answer of express's default error handler (an HTML page)
DefaultErrorHandler == [status |-> 500]

\* err.message of what a stage throws
Message(kind) ==
    CASE kind = "embedding" -> "embedding service error"
      [] kind = "store" -> "store query error"
      [] kind = "transport" -> "language model unreachable"
      [] kind = "schema" -> "Failed to parse"
      [] OTHER -> "error"

\* catch (err): res.status(500).json({ error: "classification_failed", details })
ClassificationFailed(kind) ==
    [status |-> 500, error |-> "classification_failed", details |-> Message(kind)]

\* parseFloat((c.similarity * 100).toFixed(1)): the percentage, rounded half
\* away from zero to one decimal, in units of 1/10 percent
Percent(similarity) ==
    LET u == Scale \div 1000
        a == IF similarity < 0 THEN -similarity ELSE similarity
        r == (a + u \div 2) \div u
    IN IF similarity < 0 THEN -r ELSE r

\* a bundle sent without its justification
BundleWithoutJustification(cls, just, cands) ==
    [status |-> 200,
     classification |->
        [hts_code |-> cls.hts_code,
         confidence |-> cls.confidence,
         structure |-> [chapter |-> cls.chapter, heading |-> cls.heading,
                        subheading |-> cls.subheading],
         alternatives_considered |-> cls.alternative_codes],
     retrieved_candidates |->
        [i \in DOMAIN cands |->
            [code |-> cands[i].code, description |-> cands[i].description,
             similarity |-> Percent(cands[i].similarity)]],
     metadata |-> [rag_enabled |-> TRUE, retrieval_count |-> Len(cands)]]

\* res.json({ classification, justification, retrieved_candidates, metadata })
SuccessBundle(cls, just, cands) ==
    [status |-> 200,
     classification |->
        [hts_code |-> cls.hts_code,
         confidence |-> cls.confidence,
         structure |-> [chapter |-> cls.chapter, heading |-> cls.heading,
                        subheading |-> cls.subheading],
         alternatives_considered |-> cls.alternative_codes],
     justification |-> just,
     retrieved_candidates |->
        [i \in DOMAIN cands |->
            [code |-> cands[i].code, description |-> cands[i].description,
             similarity |-> Percent(cands[i].similarity)]],
     metadata |-> [rag_enabled |-> TRUE, retrieval_count |-> Len(cands)]]

\* justificationChain.invoke(...).content: a document about the selected code
Justification(cls) == [about |-> cls.hts_code, alternatives |-> cls.alternative_codes]

Issue(r, call) == calls' = [calls EXCEPT ![r] = Append(@, call)]

Respond(r, res, at) ==
    /\ response' = [response EXCEPT ![r] = res]
    /\ pc' = [pc EXCEPT ![r] = at]

\* a stage threw inside try: the catch block answers
Throw(r, kind) ==
    /\ Respond(r, ClassificationFailed(kind), "failed")
    /\ cause' = [cause EXCEPT ![r] = kind]

\* lines 97-107: destructure, validate, call retrieveHTSCodes (which issues the
\* embedding call).  A description without a trim method throws a TypeError
\* before the try block: the handler's promise rejects and it sends nothing.
\* What the router does with the rejected promise depends on the express
\* release installed: express 4 ignores it and the request stays unanswered,
\* express 5 passes it to the default error handler, which answers 500.
Validate(r) ==
    /\ pc[r] = "received"
    /\ IF ~(body[r].t \in {"undefined", "null"}) /\ ~HasTrim(body[r])
       THEN /\ \/ /\ pc' = [pc EXCEPT ![r] = "threw"]
                  /\ UNCHANGED response
               \/ Respond(r, DefaultErrorHandler, "error_handler")
            /\ UNCHANGED <<calls, io>>
       ELSE IF Falsy(OptionalTrim(body[r]))
       THEN /\ Respond(r, ValidationFailure, "rejected")
            /\ UNCHANGED <<calls, io>>
       ELSE /\ pc' = [pc EXCEPT ![r] = "embedding"]
            /\ Issue(r, "embed")
            /\ io' = [io EXCEPT ![r].text = QueryText(body[r])]
            /\ UNCHANGED response
    /\ UNCHANGED <<tariff_codes, table0, body, candidates, classification, cause>>
    /\ UNCHANGED <<ret, mode, jobVars>>

\* a retrieval that stores the query vector in the rows without an embedding
EmbedReturnStoring(r) ==
    /\ pc[r] = "embedding"
    /\ \/ /\ pc' = [pc EXCEPT ![r] = "querying"]
          /\ Issue(r, "store")
          /\ tariff_codes' =
                [i \in DOMAIN tariff_codes |->
                    IF tariff_codes[i].embedding = NoVec
                    THEN [tariff_codes[i] EXCEPT !.embedding = OldVec(1)]
                    ELSE tariff_codes[i]]
          /\ UNCHANGED <<response, cause>>
       \/ /\ Throw(r, "embedding")
          /\ UNCHANGED <<calls, tariff_codes>>
    /\ UNCHANGED <<table0, body, candidates, classification, io>>
    /\ UNCHANGED <<ret, mode, jobVars>>

\* retrieval.js 28-53: the embedding call returns and the store query is
\* issued, or the embedding call throws
EmbedReturn(r) ==
    /\ pc[r] = "embedding"
    /\ \/ /\ pc' = [pc EXCEPT ![r] = "querying"]
          /\ Issue(r, "store")
          /\ UNCHANGED <<response, cause>>
       \/ /\ Throw(r, "embedding")
          /\ UNCHANGED calls
    /\ UNCHANGED <<tariff_codes, table0, body, candidates, classification, io>>
    /\ UNCHANGED <<ret, mode, jobVars>>

\* the query returns and the classification chain is invoked whatever the
\* number of candidates
QueryReturnNoEmptyCheck(r) ==
    /\ pc[r] = "querying"
    /\ \/ \E dist \in [StoredVecs(tariff_codes) -> Dists] :
            \E rows \in QueryResults(tariff_codes, dist, DefaultK) :
              /\ candidates' = [candidates EXCEPT ![r] = rows]
              /\ pc' = [pc EXCEPT ![r] = "classifying"]
              /\ Issue(r, "classify")
              /\ io' = [io EXCEPT ![r].dist = dist, ![r].prompt = Prompt(body[r], rows)]
              /\ UNCHANGED <<response, cause>>
       \/ /\ Throw(r, "store")
          /\ UNCHANGED <<calls, candidates, io>>
    /\ UNCHANGED <<tariff_codes, table0, body, classification>>
    /\ UNCHANGED <<ret, mode, jobVars>>

\* a handler that keeps the candidates in one variable of the module, shared
\* by the requests in flight
QueryReturnShared(r) ==
    /\ pc[r] = "querying"
    /\ \/ \E dist \in [StoredVecs(tariff_codes) -> Dists] :
            \E rows \in QueryResults(tariff_codes, dist, DefaultK) :
              /\ candidates' = [q \in Reqs |-> rows]
              /\ IF Len(rows) = 0
                 THEN /\ Respond(r, NoCandidatesFound, "no_candidates")
                      /\ io' = [io EXCEPT ![r].dist = dist]
                      /\ UNCHANGED calls
                 ELSE /\ pc' = [pc EXCEPT ![r] = "classifying"]
                      /\ Issue(r, "classify")
                      /\ io' = [io EXCEPT ![r].dist = dist,
                                           ![r].prompt = Prompt(body[r], candidates'[r])]
                      /\ UNCHANGED response
              /\ UNCHANGED cause
       \/ /\ Throw(r, "store")
          /\ UNCHANGED <<calls, candidates, io>>
    /\ UNCHANGED <<tariff_codes, table0, body, classification>>
    /\ UNCHANGED <<ret, mode, jobVars>>

\* retrieval.js 53-58 and lines 107-131: the query returns; with no candidate
\* the handler answers 404, else it invokes the classification chain
QueryReturn(r) ==
    /\ pc[r] = "querying"
    /\ \/ \E dist \in [StoredVecs(tariff_codes) -> Dists] :
            \E rows \in QueryResults(tariff_codes, dist, DefaultK) :
              /\ candidates' = [candidates EXCEPT ![r] = rows]
              /\ IF Len(rows) = 0
                 THEN /\ Respond(r, NoCandidatesFound, "no_candidates")
                      /\ io' = [io EXCEPT ![r].dist = dist]
                      /\ UNCHANGED calls
                 ELSE /\ pc' = [pc EXCEPT ![r] = "classifying"]
                      /\ Issue(r, "classify")
                      /\ io' = [io EXCEPT ![r].dist = dist,
                                           ![r].prompt = Prompt(body[r], candidates'[r])]
                      /\ UNCHANGED response
              /\ UNCHANGED cause
       \/ /\ Throw(r, "store")
          /\ UNCHANGED <<calls, candidates, io>>
    /\ UNCHANGED <<tariff_codes, table0, body, classification>>
    /\ UNCHANGED <<ret, mode, jobVars>>

\* lines 124-150: the classification chain returns a parsed object and the
\* justification chain is invoked, or the model call or the parser throws
ClassifyReturn(r) ==
    /\ pc[r] = "classifying"
    /\ \/ \E out \in LLMOutputs :
            /\ io' = [io EXCEPT ![r].answer = out]
            /\ IF classificationSchema(out)
               THEN /\ classification' = [classification EXCEPT ![r] = Parse(out)]
                    /\ pc' = [pc EXCEPT ![r] = "synthesizing"]
                    /\ Issue(r, "justify")
                    /\ UNCHANGED <<response, cause>>
               ELSE /\ Throw(r, "schema")
                    /\ UNCHANGED <<calls, classification>>
       \/ /\ Throw(r, "transport")
          /\ UNCHANGED <<calls, classification, io>>
    /\ UNCHANGED <<tariff_codes, table0, body, candidates>>
    /\ UNCHANGED <<ret, mode, jobVars>>

\* lines 152-187: the justification returns and the bundle is sent, or the
\* model call throws
JustifyReturn(r) ==
    /\ pc[r] = "synthesizing"
    /\ \/ /\ Respond(r, SuccessBundle(classification[r],
                                      Justification(classification[r]),
                                      candidates[r]), "done")
          /\ UNCHANGED cause
       \/ Throw(r, "transport")
    /\ UNCHANGED <<tariff_codes, table0, body, candidates, classification, calls, io>>
    /\ UNCHANGED <<ret, mode, jobVars>>

Handler(r) ==
    \/ Validate(r)
    \/ EmbedReturn(r)
    \/ QueryReturn(r)
    \/ ClassifyReturn(r)
    \/ JustifyReturn(r)

\* ------------------------------------------------------------ a direct caller of retrieveHTSCodes
\* retrieval.js 24-37: the embedding call returns and the query is issued, or
\* the call throws and retrieveHTSCodes rethrows
RetrieveEmbed ==
    /\ ret.pc = "embedding"
    /\ \/ ret' = [ret EXCEPT !.pc = "querying"]
       \/ ret' = [ret EXCEPT !.pc = "threw"]
    /\ UNCHANGED <<tariff_codes, table0, reqVars, mode, jobVars>>

\* retrieval.js 37-62: the query returns result.rows, or throws
RetrieveQuery ==
    /\ ret.pc = "querying"
    /\ \/ \E dist \in [StoredVecs(tariff_codes) -> Dists] :
            \E rows \in QueryResults(tariff_codes, dist, ret.k) :
              ret' = [ret EXCEPT !.pc = "returned", !.rows = rows]
       \/ ret' = [ret EXCEPT !.pc = "threw"]
    /\ UNCHANGED <<tariff_codes, table0, reqVars, mode, jobVars>>

\* ------------------------------------------------------------ the backfill job
Triple(row) == [htsno |-> row.htsno, descript |-> row.descript, indent |-> row.indent]

Triples(rows) == {Triple(rows[i]) : i \in DOMAIN rows}

\* WHERE indent <= 2 AND embedding IS NULL  (the COUNT(*) query)
CountWhere(row) == row.indent <= 2 /\ row.embedding = NoVec

\* a batch query that takes rows of any code
BatchWhereAnyCode(row) == row.indent <= 2 /\ row.embedding = NoVec

\* WHERE indent <= 2 AND embedding IS NULL AND htsno IS NOT NULL  (the batch query)
BatchWhere(row) ==
    /\ row.indent <= 2
    /\ row.embedding = NoVec
    /\ row.htsno # NULL

\* ORDER BY htsno, descript, indent
TripleBefore(a, b) ==
    \/ a.htsno < b.htsno
    \/ a.htsno = b.htsno /\ a.descript < b.descript
    \/ a.htsno = b.htsno /\ a.descript = b.descript /\ a.indent <= b.indent

\* the elements of S in ORDER BY order: the k-th has k - 1 elements before it
Sorted(S) ==
    [k \in 1..Cardinality(S) |->
        CHOOSE t \in S : Cardinality({u \in S : u # t /\ TripleBefore(u, t)}) = k - 1]

\* a batch query without DISTINCT ON: one entry per row
SelectBatchNotDistinct(rows) ==
    LET all == SelectSeq(rows, BatchWhere)
    IN [k \in 1..Min(Len(all), BATCH_SIZE) |-> Triple(all[k])]

\* SELECT DISTINCT ON (htsno, descript, indent) ... ORDER BY ... LIMIT BATCH_SIZE
SelectBatch(rows) ==
    LET all == Sorted({Triple(rows[i]) : i \in {j \in DOMAIN rows : BatchWhere(rows[j])}})
    IN SubSeq(all, 1, Min(Len(all), BATCH_SIZE))

\* lines 61-67: the chapter template for indent 0, the longer one otherwise;
\* the vector is named by this text
TextToEmbed(row) ==
    [tpl |-> IF row.indent = 0 THEN "chapter" ELSE "specific",
     htsno |-> row.htsno, descript |-> row.descript]

\* UPDATE tariff_codes SET embedding = $1 WHERE htsno = $2
Update(rows, vec, htsno) ==
    [i \in DOMAIN rows |->
        IF rows[i].htsno = htsno THEN [rows[i] EXCEPT !.embedding = vec] ELSE rows[i]]

\* a while loop that stops one row early
LoopGuardOffByOne(p, total) == p + 1 < total

\* while (processed < totalRows)
LoopGuard(p, total) == p < total

CallCap == 2

Count(n) == Min(n + 1, CallCap)

\* the catch of line 94 and the finally: the job ends
Fatal ==
    /\ fatal' = TRUE
    /\ jpc' = "done"

\* the for loop reaches row i of the batch: hf.featureExtraction is called
StartRow(rows, i) ==
    /\ bi' = i
    /\ jpc' = "embed"
    /\ embedCalls' = [embedCalls EXCEPT ![rows[i]] = Count(@)]

\* the for loop goes to the next row, or the while loop to its test
NextRow ==
    IF bi < Len(batch)
    THEN StartRow(batch, bi + 1)
    ELSE /\ jpc' = "loop"
         /\ UNCHANGED <<bi, embedCalls>>

\* lines 29-36: the COUNT(*) query returns, or throws
JobCount ==
    /\ jpc = "count"
    /\ \/ /\ totalRows' = Cardinality({i \in DOMAIN tariff_codes : CountWhere(tariff_codes[i])})
          /\ jpc' = "loop"
          /\ UNCHANGED fatal
       \/ /\ Fatal
          /\ UNCHANGED totalRows
    /\ UNCHANGED <<tariff_codes, table0, reqVars, ret, mode, processed, batch, bi,
                   flatEmbedding, embedCalls, writes, failures>>

\* lines 38-58: the loop test; the batch query returns, or throws; an empty
\* batch breaks out of the loop
JobLoop ==
    /\ jpc = "loop"
    /\ IF LoopGuard(processed, totalRows)
       THEN \/ LET rows == SelectBatch(tariff_codes)
               IN /\ batch' = rows
                  /\ IF Len(rows) = 0
                     THEN /\ jpc' = "done"
                          /\ UNCHANGED <<bi, embedCalls>>
                     ELSE StartRow(rows, 1)
                  /\ UNCHANGED fatal
            \/ /\ Fatal
               /\ UNCHANGED <<batch, bi, embedCalls>>
       ELSE /\ jpc' = "done"
            /\ UNCHANGED <<batch, bi, embedCalls, fatal>>
    /\ UNCHANGED <<tariff_codes, table0, reqVars, ret, mode, totalRows, processed,
                   flatEmbedding, writes, failures>>

\* lines 69-79: the embedding call of the current row returns and the UPDATE
\* is issued
JobEmbedOk ==
    /\ jpc = "embed"
    /\ mode[batch[bi]] # "embed_down"
    /\ flatEmbedding' = TextToEmbed(batch[bi])
    /\ jpc' = "update"
    /\ writes' = Count(writes)
    /\ UNCHANGED <<tariff_codes, table0, reqVars, ret, mode, totalRows, processed,
                   batch, bi, fatal, embedCalls, failures>>

\* lines 69-72 and 86-88: the embedding call throws; the row is logged and left
JobEmbedFail ==
    /\ jpc = "embed"
    /\ mode[batch[bi]] \in {"embed_down", "flaky"}
    /\ failures' = failures \cup {batch[bi]}
    /\ NextRow
    /\ UNCHANGED <<tariff_codes, table0, reqVars, ret, mode, totalRows, processed,
                   batch, flatEmbedding, fatal, writes>>

\* lines 76-84: the UPDATE returns; processed++ and the delay
JobUpdateOk ==
    /\ jpc = "update"
    /\ mode[batch[bi]] # "write_down"
    /\ tariff_codes' = Update(tariff_codes, flatEmbedding, batch[bi].htsno)
    /\ processed' = processed + 1
    /\ NextRow
    /\ UNCHANGED <<table0, reqVars, ret, mode, totalRows, batch, flatEmbedding,
                   fatal, writes, failures>>

\* lines 76-79 and 86-88: the UPDATE throws; the row is logged and left
JobUpdateFail ==
    /\ jpc = "update"
    /\ mode[batch[bi]] \in {"write_down", "flaky"}
    /\ failures' = failures \cup {batch[bi]}
    /\ NextRow
    /\ UNCHANGED <<tariff_codes, table0, reqVars, ret, mode, totalRows, processed,
                   batch, flatEmbedding, fatal, writes>>

generateEmbeddings ==
    \/ JobCount
    \/ JobLoop
    \/ JobEmbedOk
    \/ JobEmbedFail
    \/ JobUpdateOk
    \/ JobUpdateFail

\* ------------------------------------------------------------ initial states
NoRequest ==
    /\ body = [r \in Reqs |-> Undefined]
    /\ pc = [r \in Reqs |-> "absent"]
    /\ candidates = [r \in Reqs |-> <<>>]
    /\ classification = [r \in Reqs |-> NoClassification]
    /\ response = [r \in Reqs |-> NoResponse]
    /\ calls = [r \in Reqs |-> <<>>]
    /\ cause = [r \in Reqs |-> "none"]
    /\ io = [r \in Reqs |-> NoIO]

NoRetrieve == ret = [pc |-> "idle", k |-> DefaultK, rows |-> <<>>]

\* the job at its start, with no call made yet
JobAt(at) ==
    /\ jpc = at
    /\ totalRows = 0
    /\ processed = 0
    /\ batch = <<>>
    /\ bi = 0
    /\ flatEmbedding = NoVec
    /\ fatal = FALSE
    /\ embedCalls = [t \in Triples(tariff_codes) |-> 0]
    /\ writes = 0
    /\ failures = {}

AllUp == mode = [t \in Triples(tariff_codes) |-> "up"]

ServeRows ==
    {TariffCode(h, 1, i, e) :
        h \in 0..MaxCode, i \in {2, 3}, e \in {NoVec, OldVec(1), OldVec(2)}}

ServeTables == Tables(ServeRows, MaxRows)

\* one request has arrived; the table is any of ServeTables; no job runs
Init ==
    /\ tariff_codes \in ServeTables
    /\ table0 = tariff_codes
    /\ body \in {b \in [Reqs -> Descriptions] : \A r \in Reqs : r > 1 => b[r] = Undefined}
    /\ pc = [r \in Reqs |-> IF r = 1 THEN "received" ELSE "absent"]
    /\ candidates = [r \in Reqs |-> <<>>]
    /\ classification = [r \in Reqs |-> NoClassification]
    /\ response = [r \in Reqs |-> NoResponse]
    /\ calls = [r \in Reqs |-> <<>>]
    /\ cause = [r \in Reqs |-> "none"]
    /\ io = [r \in Reqs |-> NoIO]
    /\ NoRetrieve
    /\ AllUp
    /\ JobAt("idle")

Next == \E r \in Reqs : Handler(r)

Spec == Init /\ [][Next]_vars

\* retrieveHTSCodes called with any k on any table of RetrieveTables
MaxK == 2
MaxRetrieveRows == 3

RetrieveRows ==
    {TariffCode(h, 1, i, e) :
        h \in {NULL, 1}, i \in {1, 2, 3}, e \in {NoVec, OldVec(1), OldVec(2)}}

RetrieveTables == Tables(RetrieveRows, MaxRetrieveRows)

InitRetrieve ==
    /\ tariff_codes \in RetrieveTables
    /\ table0 = tariff_codes
    /\ NoRequest
    /\ ret \in {[pc |-> "embedding", k |-> k, rows |-> <<>>] : k \in 0..MaxK}
    /\ AllUp
    /\ JobAt("idle")

NextRetrieve == RetrieveEmbed \/ RetrieveQuery

SpecRetrieve == InitRetrieve /\ [][NextRetrieve]_vars

\* the backfill job run alone.  The table is up to MaxRows rows of JobRows,
\* or BATCH_SIZE unembedded rows of lower codes followed by at most one row of
\* JobRows.  mode says, for each row of the job, how
\* its calls behave: "up" (they return), "embed_down" (the embedding call keeps
\* throwing), "write_down" (the UPDATE keeps throwing), "flaky" (either call may
\* throw, but not forever).
JobCodes == {BATCH_SIZE + c : c \in 1..MaxCode}

JobRows ==
    {TariffCode(h, d, i, e) :
        h \in {NULL} \cup JobCodes, d \in 1..MaxDesc, i \in {0, 2, 3},
        e \in {NoVec, OldVec(1)}}

FullBatch == [c \in 1..BATCH_SIZE |-> TariffCode(c, 1, 2, NoVec)]

JobTables ==
    Tables(JobRows, MaxRows)
    \cup {FullBatch \o rows : rows \in Tables(JobRows, 1)}

Modes == {"up", "embed_down", "write_down", "flaky"}

JobModes(rows) ==
    LET own == {Triple(rows[i]) : i \in {j \in DOMAIN rows :
                    BatchWhere(rows[j]) /\ rows[j].htsno \in JobCodes}}
    IN {[t \in Triples(rows) |->
            IF t \in own THEN m[t]
            ELSE IF t.htsno \in 1..BATCH_SIZE THEN lower
            ELSE "up"] :
          m \in [own -> Modes], lower \in {"up", "embed_down"}}

InitJob ==
    /\ tariff_codes \in JobTables
    /\ table0 = tariff_codes
    /\ NoRequest
    /\ NoRetrieve
    /\ mode \in JobModes(tariff_codes)
    /\ JobAt("count")

NextJob == generateEmbeddings

SpecJob == InitJob /\ [][NextJob]_vars

\* the job's process runs on while it can; a flaky call does not throw forever
FairSpecJob ==
    /\ SpecJob
    /\ WF_vars(NextJob)
    /\ SF_vars(JobEmbedOk)
    /\ SF_vars(JobUpdateOk)

\* one request handled while the backfill job runs on the same table: up to
\* MaxRows rows with indent 2 and a code of JobCodes, with or without an
\* embedding; the calls of the job all behave in the same way
BothRows == {TariffCode(h, 1, 2, e) : h \in JobCodes, e \in {NoVec, OldVec(1)}}

BothTables == Tables(BothRows, MaxRows)

BothModes(rows) == {[t \in Triples(rows) |-> m] : m \in Modes}

InitBoth ==
    /\ tariff_codes \in BothTables
    /\ table0 = tariff_codes
    /\ body \in {b \in [Reqs -> Descriptions] : \A r \in Reqs : r > 1 => b[r] = Undefined}
    /\ pc = [r \in Reqs |-> IF r = 1 THEN "received" ELSE "absent"]
    /\ candidates = [r \in Reqs |-> <<>>]
    /\ classification = [r \in Reqs |-> NoClassification]
    /\ response = [r \in Reqs |-> NoResponse]
    /\ calls = [r \in Reqs |-> <<>>]
    /\ cause = [r \in Reqs |-> "none"]
    /\ io = [r \in Reqs |-> NoIO]
    /\ NoRetrieve
    /\ mode \in BothModes(tariff_codes)
    /\ JobAt("count")

NextBoth ==
    \/ \E r \in Reqs : Handler(r)
    \/ generateEmbeddings

SpecBoth == InitBoth /\ [][NextBoth]_vars

\* every request answered as long as its handler can take a step: each
\* external call returns or throws
FairSpec == Spec /\ \A r \in Reqs : WF_vars(Handler(r))

\* the requests of Reqs handled concurrently, request r with a description of
\* r characters, on a table of at most one row
TwoRows == {TariffCode(1, 1, 2, e) : e \in {NoVec, OldVec(1)}}

TwoTables == Tables(TwoRows, 1)

InitTwo ==
    /\ tariff_codes \in TwoTables
    /\ table0 = tariff_codes
    /\ body = [r \in Reqs |-> Str([i \in 1..r |-> "a"])]
    /\ pc = [r \in Reqs |-> "received"]
    /\ candidates = [r \in Reqs |-> <<>>]
    /\ classification = [r \in Reqs |-> NoClassification]
    /\ response = [r \in Reqs |-> NoResponse]
    /\ calls = [r \in Reqs |-> <<>>]
    /\ cause = [r \in Reqs |-> "none"]
    /\ io = [r \in Reqs |-> NoIO]
    /\ NoRetrieve
    /\ AllUp
    /\ JobAt("idle")

NextTwo == \E r \in Reqs : Handler(r)

SpecTwo == InitTwo /\ [][NextTwo]_vars

\* ------------------------------------------------------------ properties
\* a description that is missing, empty or made of white space only
IsBlank(d) ==
    \/ d.t \in {"undefined", "null"}
    \/ d.t = "string" /\ \A i \in DOMAIN d.s : d.s[i] = " "

NonBlank(d) == d.t = "string" /\ \E i \in DOMAIN d.s : d.s[i] # " "

Ended(r) == pc[r] \in {"rejected", "no_candidates", "done", "failed", "threw", "error_handler"}

CandidateCodes(r) == {candidates[r][i].code : i \in DOMAIN candidates[r]}

\* C1: a request whose product_description is missing, empty or white space
\* only is answered 400 "product_description is required", and no embedding
\* call, store query or model call is ever issued for it.
C1_BlankRejected ==
    \A r \in Reqs :
        IsBlank(body[r]) =>
            /\ calls[r] = <<>>
            /\ pc[r] \in {"absent", "received", "rejected"}
            /\ pc[r] = "rejected" =>
                 /\ response[r].status = 400
                 /\ response[r].error = "product_description is required"

C1_Witness ==
    \E r \in Reqs : pc[r] = "rejected" /\ body[r] = Str(<<" ">>)

NoEmbeddedRow(rows) == \A i \in DOMAIN rows : rows[i].embedding = NoVec

\* C2 as stated: with no embedded row in the table, every request with a
\* non-blank description ends in 404 no_candidates_found.
C2_Original ==
    \A r \in Reqs :
        (NonBlank(body[r]) /\ NoEmbeddedRow(tariff_codes) /\ Ended(r)) =>
            /\ pc[r] = "no_candidates"
            /\ response[r].status = 404

\* C2 (amended): with no embedded row in the table, a request with a
\* non-blank description never invokes the classifier or the justification
\* model and returns no classification; it ends in 404 no_candidates_found
\* when retrieveHTSCodes returns, and in 500 classification_failed when the
\* embedding call or the store query throws.
C2_EmptyCorpus ==
    \A r \in Reqs :
        (NonBlank(body[r]) /\ NoEmbeddedRow(tariff_codes)) =>
            /\ "classify" \notin Range(calls[r])
            /\ "justify" \notin Range(calls[r])
            /\ "classification" \notin DOMAIN response[r]
            /\ Ended(r) =>
                 \/ /\ pc[r] = "no_candidates"
                    /\ cause[r] = "none"
                    /\ response[r].status = 404
                    /\ response[r].error = "no_candidates_found"
                 \/ /\ pc[r] = "failed"
                    /\ cause[r] \in {"embedding", "store"}
                    /\ response[r].status = 500
                    /\ response[r].error = "classification_failed"

C2_Witness ==
    \E r \in Reqs :
        /\ pc[r] = "no_candidates"
        /\ tariff_codes # <<>>
        /\ NoEmbeddedRow(tariff_codes)

\* C3: a response that carries a classification carries the justification
\* written for it and the candidates retrieved for the same request; a request
\* in which a stage threw is answered with the failure outcome alone.
C3_NoPartialResult ==
    \A r \in Reqs :
        /\ "classification" \in DOMAIN response[r] =>
             /\ cause[r] = "none"
             /\ "justification" \in DOMAIN response[r]
             /\ "retrieved_candidates" \in DOMAIN response[r]
             /\ response[r].justification.about = response[r].classification.hts_code
             /\ Len(response[r].retrieved_candidates) = Len(candidates[r])
             /\ \A i \in DOMAIN candidates[r] :
                  response[r].retrieved_candidates[i].code = candidates[r][i].code
        /\ cause[r] # "none" =>
             /\ DOMAIN response[r] = {"status", "error", "details"}
             /\ response[r].status = 500
             /\ response[r].error = "classification_failed"
             /\ response[r].details = Message(cause[r])

C3_Witness ==
    \E r \in Reqs :
        /\ pc[r] = "failed"
        /\ classification[r] # NoClassification
        /\ candidates[r] # <<>>

\* C4: in a success bundle the selected code and every alternative is the
\* code of a candidate retrieved for the request.
C4_CodesFromCandidates ==
    \A r \in Reqs :
        pc[r] = "done" =>
            /\ response[r].classification.hts_code \in CandidateCodes(r)
            /\ Range(response[r].classification.alternatives_considered)
                 \subseteq CandidateCodes(r)

Stage(p) ==
    CASE p = "absent" -> "Absent"
      [] p = "received" -> "Received"
      [] p \in {"embedding", "querying"} -> "Retrieving"
      [] p = "classifying" -> "Classifying"
      [] p = "synthesizing" -> "Synthesizing"
      [] p = "no_candidates" -> "NoCandidates"
      [] p = "done" -> "Done"
      [] OTHER -> "Failed"

Terminal(stage) == stage \in {"NoCandidates", "Done", "Failed"}

Transitions ==
    {<<"Received", "Retrieving">>, <<"Retrieving", "NoCandidates">>,
     <<"Retrieving", "Classifying">>, <<"Classifying", "Synthesizing">>,
     <<"Synthesizing", "Done">>}
    \cup {<<s, "Failed">> : s \in {"Received", "Retrieving", "Classifying", "Synthesizing"}}

\* C5: a request moves only along Received -> Retrieving -> (NoCandidates |
\* Classifying -> Synthesizing -> Done), or to Failed from a stage that is not
\* terminal; the classifier call is issued only when retrieval has returned a
\* non-empty list, the justification call only when the classifier has
\* returned schema-valid output, and no call is issued from a terminal state.
C5_StateMachine ==
    [][\A r \in Reqs :
        /\ \/ Stage(pc'[r]) = Stage(pc[r])
           \/ <<Stage(pc[r]), Stage(pc'[r])>> \in Transitions
        /\ calls'[r] # calls[r] =>
             /\ ~Terminal(Stage(pc[r]))
             /\ \E call \in {"embed", "store", "classify", "justify"} :
                  /\ calls'[r] = Append(calls[r], call)
                  /\ call = "classify" =>
                       /\ pc[r] = "querying"
                       /\ candidates'[r] # <<>>
                       /\ calls[r] = <<"embed", "store">>
                  /\ call = "justify" =>
                       /\ pc[r] = "classifying"
                       /\ classification'[r] # NoClassification
                       /\ classification'[r].confidence \in 0..ConfidenceUnit
                       /\ calls[r] = <<"embed", "store", "classify">>
      ]_vars

C5_Witness ==
    \E r \in Reqs :
        /\ pc[r] = "done"
        /\ calls[r] = <<"embed", "store", "classify", "justify">>

\* C6: retrieveHTSCodes returns at most k candidates, by similarity descending
\* and, among candidates of equal similarity, by indent descending.
C6_AtMostKSorted ==
    ret.pc = "returned" =>
        /\ Len(ret.rows) <= ret.k
        /\ \A i, j \in DOMAIN ret.rows :
             i < j =>
                /\ ret.rows[i].similarity >= ret.rows[j].similarity
                /\ ret.rows[i].similarity = ret.rows[j].similarity =>
                     ret.rows[i].indent >= ret.rows[j].indent

C6_Witness ==
    /\ ret.pc = "returned"
    /\ ret.k = 2
    /\ Len(ret.rows) = 2
    /\ Cardinality({i \in DOMAIN tariff_codes : RetrievalWhere(tariff_codes[i])}) = 3
    /\ ret.rows[1].similarity = ret.rows[2].similarity
    /\ ret.rows[1].indent > ret.rows[2].indent

\* a table in which no row with indent <= 2 and a code lacks its embedding
NoBackfillWork(rows) ==
    \A i \in DOMAIN rows :
        ~(rows[i].indent <= 2 /\ rows[i].htsno # NULL /\ rows[i].embedding = NoVec)

\* C7: run on a table in which no row with indent <= 2 and a non-null code has
\* a null embedding, the job issues no embedding call and no write, also when
\* rows with a null code, or with indent > 2, lack their embedding.
C7_NoWorkNoCalls ==
    NoBackfillWork(table0) =>
        /\ \A t \in DOMAIN embedCalls : embedCalls[t] = 0
        /\ writes = 0
        /\ tariff_codes = table0
        /\ jpc \notin {"embed", "update"}

C7_Witness ==
    /\ jpc = "done"
    /\ ~fatal
    /\ NoBackfillWork(table0)
    /\ \E i, j \in DOMAIN table0 :
         /\ table0[i].htsno = NULL /\ table0[i].indent <= 2 /\ table0[i].embedding = NoVec
         /\ table0[j].htsno # NULL /\ table0[j].indent > 2 /\ table0[j].embedding = NoVec

\* C8: whatever rows have calls that keep failing, every other row the job is
\* to embed (indent <= 2, a code, no embedding) whose own calls succeed is
\* attempted and embedded, unless the store itself fails.
C8_FailureIsolation ==
    <>(\/ fatal
       \/ \A i \in DOMAIN table0 :
            (BatchWhere(table0[i]) /\ mode[Triple(table0[i])] = "up") =>
                /\ embedCalls[Triple(table0[i])] > 0
                /\ tariff_codes[i].embedding # NoVec)

C10_DistinctFailureKinds ==
    \A r \in Reqs :
        (pc[r] = "failed" /\ cause[r] = "schema") =>
            response[r].error # ClassificationFailed("transport").error

\* C11: in a success bundle the similarity of every retrieved candidate is a
\* percentage between 0 and 100 (Percent counts tenths of a percent).
C11_SimilarityPercent ==
    \A r \in Reqs :
        pc[r] = "done" =>
            \A i \in DOMAIN response[r].retrieved_candidates :
                /\ response[r].retrieved_candidates[i].similarity >= 0
                /\ response[r].retrieved_candidates[i].similarity <= 100 * 10

\* C12: in a success bundle classification.confidence lies in [0, 1]; a
\* classifier answer with a confidence outside [0, 1] is never parsed into a
\* classification and ends the request in 500 classification_failed.
C12_ConfidenceInRange ==
    \A r \in Reqs :
        /\ pc[r] = "done" =>
             /\ response[r].classification.confidence >= 0
             /\ response[r].classification.confidence <= ConfidenceUnit
        /\ (io[r].answer.json /\ io[r].answer.confidence \notin 0..ConfidenceUnit) =>
             /\ pc[r] = "failed"
             /\ classification[r] = NoClassification
             /\ "justify" \notin Range(calls[r])
             /\ response[r] = ClassificationFailed("schema")

C12_Witness ==
    \E r \in Reqs :
        /\ pc[r] = "failed"
        /\ io[r].answer.json
        /\ io[r].answer.confidence = ConfidenceUnit + 1

\* C13: in a success bundle the chapter, heading and subheading codes of
\* classification.structure are non-empty strings.
C13_NonEmptyCodes ==
    \A r \in Reqs :
        pc[r] = "done" =>
            /\ response[r].classification.structure.chapter # ""
            /\ response[r].classification.structure.heading # ""
            /\ response[r].classification.structure.subheading # ""

\* a row retrieval may return: indent <= 2, an embedding and a code
Eligible(row) == row.indent <= 2 /\ row.embedding # NoVec /\ row.htsno # NULL

\* C14: the candidates retrieveHTSCodes returns are the projections of
\* distinct rows of the table, each with indent <= 2, a non-null embedding and
\* a non-null code: no row with indent > 2 and no row without an embedding is
\* returned, whatever its distance to the query.
C14_OnlyEligibleRows ==
    ret.pc = "returned" =>
        \E f \in [DOMAIN ret.rows -> DOMAIN tariff_codes] :
            /\ \A i, j \in DOMAIN ret.rows : i # j => f[i] # f[j]
            /\ \A i \in DOMAIN ret.rows :
                 /\ Eligible(tariff_codes[f[i]])
                 /\ ret.rows[i].code = tariff_codes[f[i]].htsno
                 /\ ret.rows[i].description = tariff_codes[f[i]].descript
                 /\ ret.rows[i].indent = tariff_codes[f[i]].indent
                 /\ Scale - ret.rows[i].similarity \in Dists

C14_Witness ==
    /\ ret.pc = "returned"
    /\ Len(ret.rows) = 1
    /\ ret.k > 1
    /\ \E i, j \in DOMAIN tariff_codes :
         /\ tariff_codes[i].indent > 2
         /\ tariff_codes[i].embedding # NoVec
         /\ tariff_codes[i].htsno # NULL
         /\ tariff_codes[j].indent <= 2
         /\ tariff_codes[j].embedding = NoVec
         /\ tariff_codes[j].htsno # NULL

\* C15: through a run of the job, a row that had an embedding at the start,
\* and a row with indent > 2, keeps the embedding value it had.
C15_WritesOnlySelectedRows ==
    \A i \in DOMAIN table0 :
        (table0[i].embedding # NoVec \/ table0[i].indent > 2) =>
            tariff_codes[i].embedding = table0[i].embedding

\* no call of the run fails
NoCallFails == \A t \in DOMAIN mode : mode[t] = "up"

\* C17: in a run in which no embedding call and no write fails, the embedding
\* model is called at most once for each (htsno, descript, indent), and only
\* for those of rows with indent <= 2, a code and no embedding at the start.
C17_OneCallPerTriple ==
    NoCallFails =>
        \A t \in DOMAIN embedCalls :
            /\ embedCalls[t] <= 1
            /\ embedCalls[t] = 1 =>
                 \E i \in DOMAIN table0 :
                    /\ Triple(table0[i]) = t
                    /\ table0[i].indent <= 2
                    /\ table0[i].htsno # NULL
                    /\ table0[i].embedding = NoVec

C17_Witness ==
    /\ NoCallFails
    /\ jpc = "done"
    /\ ~fatal
    /\ \E i, j \in DOMAIN table0 :
         /\ i # j
         /\ table0[i] = table0[j]
         /\ table0[i].indent <= 2 /\ table0[i].htsno # NULL /\ table0[i].embedding = NoVec
         /\ embedCalls[Triple(table0[i])] = 1
         /\ tariff_codes[i].embedding # NoVec
         /\ tariff_codes[j].embedding # NoVec

\* C19: after a run in which no call fails, every row that had indent <= 2, a
\* code and no embedding holds the vector of the text built from its own
\* code, description and indent.
C19_OwnTextEmbedded ==
    (NoCallFails /\ jpc = "done" /\ ~fatal) =>
        \A i \in DOMAIN table0 :
            (table0[i].indent <= 2 /\ table0[i].htsno # NULL /\ table0[i].embedding = NoVec) =>
                tariff_codes[i].embedding =
                    [tpl |-> IF table0[i].indent = 0 THEN "chapter" ELSE "specific",
                     htsno |-> table0[i].htsno, descript |-> table0[i].descript]

\* C16: while a request is handled and the job runs, no step of the handler
\* changes tariff_codes; the table changes only by the UPDATE of the job, which
\* leaves the request as it is.
C16_HandlerReadOnly ==
    [][/\ (\E r \in Reqs : pc'[r] # pc[r]) => tariff_codes' = tariff_codes
       /\ tariff_codes' # tariff_codes =>
            /\ jpc = "update"
            /\ processed' = processed + 1
            /\ \A i \in DOMAIN tariff_codes :
                 \/ tariff_codes'[i] = tariff_codes[i]
                 \/ /\ tariff_codes[i].htsno = batch[bi].htsno
                    /\ tariff_codes'[i] = [tariff_codes[i] EXCEPT !.embedding = flatEmbedding]
            /\ UNCHANGED reqVars
      ]_vars

C16_Witness ==
    \E r \in Reqs :
        /\ pc[r] = "done"
        /\ NoEmbeddedRow(table0)
        /\ candidates[r] # <<>>
        /\ jpc \in {"embed", "update"}

\* C18: with the requests handled concurrently, what each request holds and
\* answers comes from its own calls: the text embedded is built from its own
\* description, its candidates are an answer of the store to its own query,
\* the classifier is given its own description and candidates, its
\* classification is the parsed answer to its own prompt, and its success
\* bundle is made of these and of the justification of its own classification.
C18_NoInterference ==
    \A r \in Reqs :
        /\ io[r].text # NoText => io[r].text = QueryText(body[r])
        /\ candidates[r] # <<>> =>
             /\ DOMAIN io[r].dist = StoredVecs(tariff_codes)
             /\ candidates[r] \in QueryResults(tariff_codes, io[r].dist, DefaultK)
        /\ io[r].prompt # NoPrompt => io[r].prompt = Prompt(body[r], candidates[r])
        /\ classification[r] # NoClassification =>
             classification[r] = Parse(io[r].answer)
        /\ pc[r] = "done" =>
             /\ response[r].classification.hts_code = io[r].answer.hts_code
             /\ response[r].classification.confidence = io[r].answer.confidence
             /\ response[r].classification.alternatives_considered
                    = io[r].answer.alternative_codes
             /\ response[r].justification.about = io[r].answer.hts_code
             /\ DOMAIN io[r].dist = StoredVecs(tariff_codes)
             /\ \E rows \in QueryResults(tariff_codes, io[r].dist, DefaultK) :
                  /\ Len(response[r].retrieved_candidates) = Len(rows)
                  /\ \A i \in DOMAIN rows :
                       /\ response[r].retrieved_candidates[i].code = rows[i].code
                       /\ response[r].retrieved_candidates[i].similarity
                              = Percent(rows[i].similarity)

C18_Witness ==
    \E r, q \in Reqs :
        /\ r # q
        /\ pc[r] = "done"
        /\ pc[q] = "synthesizing"
        /\ candidates[r] # candidates[q]
        /\ classification[r].hts_code # classification[q].hts_code
        /\ response[r].classification.hts_code = classification[r].hts_code

\* C20: every request received is eventually answered, and a request is
\* answered once: a response sent is never replaced.
C20_OneResponse ==
    /\ \A r \in Reqs : (pc[r] = "received") ~> (response[r] # NoResponse)
    /\ [][\A r \in Reqs : response[r] # NoResponse => response'[r] = response[r]]_vars

====
